---- MODULE Spec2Model ----
(***************************************************************************)
(* Model of mycodo/controller_output.py (class OutputController): the      *)
(* per-output dictionaries, the switching entry point output_on_off with   *)
(* its guards, the run() expiration loop, the conditional cascade and the  *)
(* add/modify/delete reconciliation.                                       *)
(*                                                                         *)
(* Python values are encoded as follows.  A dict is a TLA+ function whose  *)
(* DOMAIN is the dict's key set.  None is the integer -1 (pins, times and  *)
(* PWM states are never negative).  datetime values are integers on the    *)
(* model clock `now`; a datetime is always truthy, so its truth test is    *)
(* "# None".  Return values of output_on_off are the strings "0", "1",     *)
(* "None" (a bare return or falling off the end) and "raise" (an uncaught  *)
(* exception).                                                             *)
(***************************************************************************)
EXTENDS Integers, Sequences, FiniteSets, TLC

VARIABLES
    ctl,          \* the OutputController object (self), the GPIO levels and the per-call logs
    db,           \* table Output of the configuration store: id -> row
    conditional,  \* tables Conditional / ConditionalActions (read-only for the controller)
    now,          \* the wall clock, datetime.datetime.now()
    threads,      \* off-requests started by run() that have not executed yet: id -> count
    approved,     \* on-requests that passed the guards and have not switched yet
    ev,           \* the last operation: its arguments and its result
    interval,     \* the timed on-interval being followed, with the samples written for it
    script,       \* progress through the scenario on(X), on(Y), off(X), on(Y)
    loop          \* self.running, the position of the run() thread, calls of stop_controller

vars == <<ctl, db, conditional, now, threads, approved, ev, interval, script, loop>>

----------------------------------------------------------------------------
\* Bounds of the model.

MaxTime    == 3     \* the clock runs 0..MaxTime
MaxThreads == 2     \* unexecuted off-threads per output
MaxSamples == 3     \* samples remembered per output
MaxDepth   == 3     \* nesting of cascaded output_on_off calls (Python's recursion limit)
MaxApproved == 2    \* on-requests between their guards and their switch at one time
MaxMails   == 4     \* email actions counted by email_count
MaxStops   == 2     \* calls of stop_controller

\* The configuration the model draws from.
Ids        == {1, 2}                 \* primary keys of table Output
MaxAmps    == 10                     \* Misc.max_amps, the current budget
HourlyMax  == 2                      \* SMTP.hourly_max, the emails allowed per window
Window     == 2                      \* the 3600 seconds of the email window, in clock units
Durations  == {0, 1, 2}              \* requested on-durations (seconds)
MinOffs    == {0, 2}                 \* requested minimum-off intervals
DutyCycles == {0, 50}                \* requested PWM duty cycles

None == -1

Kinds == {"wired", "wireless_433MHz_pi_switch", "command", "pwm"}
AmpKinds == {"command", "wired", "wireless_433MHz_pi_switch"}
PinKinds == {"pwm", "wired", "wireless_433MHz_pi_switch"}

Pins == {0} \cup Ids

\* dict helpers
Put(f, k, v) == [x \in (DOMAIN f) \cup {k} |-> IF x = k THEN v ELSE f[x]]
Pop(f, k) == [x \in (DOMAIN f) \ {k} |-> f[x]]
Has(f, k) == k \in DOMAIN f

----------------------------------------------------------------------------
\* State queries.

\* _is_setup: a wired output needs a truthy pin (0 and None are falsy), a PWM
\* output needs its pigpio handle.
is_setup(c, id) ==
    IF c.output_type[id] = "wired" /\ c.output_pin[id] # None /\ c.output_pin[id] # 0
    THEN TRUE
    ELSE IF c.output_type[id] \in {"command", "wireless_433MHz_pi_switch"}
    THEN TRUE
    ELSE IF c.output_type[id] = "pwm"
    THEN Has(c.pwm_output, id)
    ELSE FALSE

\* is_on raises KeyError for a PWM output that has no pwm_time_turned_on entry.
is_on_raises(c, id) ==
    c.output_type[id] = "pwm" /\ ~Has(c.pwm_time_turned_on, id)

is_on(c, id) ==
    IF c.output_type[id] = "wired" /\ is_setup(c, id)
    THEN c.output_trigger[id] = c.gpio[c.output_pin[id]]
    ELSE IF c.output_type[id] \in {"command", "wireless_433MHz_pi_switch"}
    THEN c.output_time_turned_on[id] # None
    ELSE IF c.output_type[id] = "pwm"
    THEN c.pwm_time_turned_on[id] # None
    ELSE FALSE

\* output_state: 'on', 'off', or the PWM duty cycle; here "off" or not.
output_state_off(c, id) ==
    IF ~Has(c.output_type, id) THEN TRUE
    ELSE IF c.output_type[id] = "wired"
    THEN ~(c.output_pin[id] # None /\ c.output_trigger[id] = c.gpio[c.output_pin[id]])
    ELSE IF c.output_type[id] \in {"command", "wireless_433MHz_pi_switch"}
    THEN ~(c.output_time_turned_on[id] # None)
    ELSE IF c.output_type[id] = "pwm"
    THEN ~(Has(c.pwm_state, id) /\ c.pwm_state[id] # None /\ c.pwm_state[id] # 0)
    ELSE TRUE

RECURSIVE SumAmps(_, _)
SumAmps(c, S) ==
    IF S = {} THEN 0
    ELSE LET id == CHOOSE x \in S : TRUE
         IN  (IF is_on(c, id) THEN c.output_amps[id] ELSE 0) + SumAmps(c, S \ {id})

current_amp_load_raises(c) ==
    \E id \in DOMAIN c.output_amps : is_on_raises(c, id)

current_amp_load(c) == SumAmps(c, DOMAIN c.output_amps)

\* output_sec_currently_on (for an output on which is_on does not raise)
output_sec_currently_on(c, id, t) ==
    IF ~is_on(c, id) THEN 0
    ELSE IF c.output_on_duration[id]
    THEN c.output_last_duration[id]
         - (IF c.output_on_until[id] > t THEN c.output_on_until[id] - t ELSE 0)
    ELSE IF c.output_time_turned_on[id] # None
    THEN t - c.output_time_turned_on[id]
    ELSE 0

----------------------------------------------------------------------------
\* Switching backend.

Abs(x) == IF x < 0 THEN -x ELSE x

Logged(c, id, state) ==
    [c EXCEPT !.switched = Append(@, [id |-> id, state |-> state])]

\* the values of pwm_library that output_switch knows
PwmLibraries == {"pigpio_hardware", "pigpio_any"}

\* lines 457-460: the duty cycle handed to hardware_PWM
hardware_duty(duty_cycle) == Abs(duty_cycle) * 10000

\* lines 462-471: the duty cycle handed to set_PWM_dutycycle
software_duty(duty_cycle) ==
    LET calc_duty_cycle == (Abs(duty_cycle) * 255) \div 100
    IN  IF calc_duty_cycle > 255 THEN 255
        ELSE IF calc_duty_cycle < 0 THEN 0
        ELSE calc_duty_cycle

\* output_switch: the result is [c, raised].  A wireless or PWM output without
\* its handle raises KeyError before anything is done, and so does a GPIO,
\* transmitter or pigpio call on hardware that fails (c.broken).
output_switch(c, id, state, duty_cycle) ==
    IF id \in c.broken /\ c.output_type[id] # "command"
    THEN [c |-> c, raised |-> TRUE]
    ELSE IF c.output_type[id] = "wired"
    THEN [c |-> [Logged(c, id, state) EXCEPT
                   !.gpio[c.output_pin[id]] =
                       IF state = "on" THEN c.output_trigger[id]
                       ELSE ~c.output_trigger[id]],
          raised |-> FALSE]
    ELSE IF c.output_type[id] = "wireless_433MHz_pi_switch"
    THEN IF Has(c.wireless_pi_switch, id)
         THEN [c |-> Logged(c, id, state), raised |-> FALSE]
         ELSE [c |-> c, raised |-> TRUE]
    ELSE IF c.output_type[id] = "command"
    THEN IF (state = "on" /\ c.output_on_command[id])
            \/ (state = "off" /\ c.output_off_command[id])
         THEN [c |-> Logged(c, id, state), raised |-> FALSE]
         ELSE [c |-> c, raised |-> FALSE]
    ELSE \* pwm
         IF Has(c.pwm_output, id)
         THEN [c |-> [Logged(c, id, state) EXCEPT
                        !.pwm_state = Put(@, id, IF state = "on" THEN Abs(duty_cycle)
                                                 ELSE None),
                        !.pwm_duty = IF c.pwm_library[id] \notin PwmLibraries THEN @
                                     ELSE Put(@, id, IF state = "off" THEN 0
                                                     ELSE IF c.pwm_library[id] = "pigpio_hardware"
                                                     THEN hardware_duty(duty_cycle)
                                                     ELSE software_duty(duty_cycle))],
               raised |-> FALSE]
         ELSE [c |-> c, raised |-> TRUE]

\* lines 846-851: building the transmitter of a wireless output is not inside a
\* try block; it raises for an id whose hardware calls raise
setup_raises(c, id) ==
    c.output_type[id] = "wireless_433MHz_pi_switch" /\ id \in c.broken

\* setup_pin, lines 824-874: the wired and the PWM branch catch their exceptions
setup_pin(c, id) ==
    IF c.output_type[id] = "wired"
    THEN IF id \in c.broken THEN c
         ELSE [c EXCEPT !.gpio[c.output_pin[id]] = ~c.output_trigger[id]]
    ELSE IF c.output_type[id] = "wireless_433MHz_pi_switch"
    THEN [c EXCEPT !.wireless_pi_switch = Put(@, id, TRUE)]
    ELSE IF c.output_type[id] = "pwm"
    THEN IF id \in c.broken THEN [c EXCEPT !.pwm_output = Put(@, id, TRUE)]
         ELSE [c EXCEPT !.pwm_output = Put(@, id, TRUE), !.pwm_state = Put(@, id, None),
                        !.pwm_duty = IF c.pwm_library[id] \in PwmLibraries
                                     THEN Put(@, id, 0) ELSE @]
    ELSE c

----------------------------------------------------------------------------
\* output_on_off.

Written(c, id, kind, value) ==
    [c EXCEPT !.written = Append(@, [id |-> id, kind |-> kind, value |-> value])]

Ret(c, ret, why, duration) == [c |-> c, ret |-> ret, why |-> why, duration |-> duration]

\* lines 187-192: the id is not a key of self.output_id
unknown_output(c, id) == ~Has(c.output_id, id)

\* a lookup failure that is reported as success
not_found_silent(c, duration) == Ret(c, "None", "NotFound", duration)
not_found(c, duration) == Ret(c, "1", "NotFound", duration)

\* lines 198-207
invalid_pin(c, id) ==
    c.output_type[id] \in PinKinds /\ c.output_pin[id] = None

\* a budget check that forgets the draw of the output about to be turned on
budget_exceeded_without_request(c, id) ==
    current_amp_load(c) > MaxAmps
\* lines 213-215
budget_exceeded(c, id) ==
    current_amp_load(c) + c.output_amps[id] > MaxAmps

\* lines 229-233
min_off_not_elapsed(c, id, min_off, t) ==
    /\ min_off # 0
    /\ ~is_on(c, id)
    /\ t > c.output_on_until[id]
    /\ t - c.output_on_until[id] < min_off

\* lines 197-243, the checks made before an output is turned on
on_guard(c, id, min_off, t) ==
    IF invalid_pin(c, id) THEN "InvalidPin"
    ELSE IF c.output_type[id] \in AmpKinds
    THEN IF current_amp_load_raises(c) THEN "KeyError"
         ELSE IF budget_exceeded(c, id) THEN "BudgetExceeded"
         ELSE IF min_off_not_elapsed(c, id, min_off, t) THEN "MinOffNotElapsed"
         ELSE "ok"
    ELSE "ok"

\* lines 250-285: already on for a duration, the duration is replaced
on_renew(c, id, duration, t) ==
    LET remaining_time == IF c.output_on_until[id] > t
                          THEN c.output_on_until[id] - t ELSE 0
        time_on == c.output_last_duration[id] - remaining_time
        c1 == [c EXCEPT !.output_on_until[id] = t + duration,
                        !.output_last_duration[id] = duration]
    IN  Ret(IF time_on > 0 THEN Written(c1, id, "duration_sec", time_on) ELSE c1,
            "0", "renewed", duration)

\* lines 286-297: `not self.output_on_duration` tests the whole dict
on_convert(c, id, duration, t) ==
    Ret([c EXCEPT !.output_on_duration[id] = TRUE,
                  !.output_on_until[id] = t + duration,
                  !.output_last_duration[id] = duration],
        "0", "converted", duration)

\* lines 298-308
on_for_duration(c, id, duration, t) ==
    LET c1 == [c EXCEPT !.output_on_until[id] = t + duration,
                        !.output_on_duration[id] = TRUE,
                        !.output_last_duration[id] = duration]
        sw == output_switch(c1, id, "on", None)
    IN  IF sw.raised THEN Ret(c1, "raise", "SwitchError", duration)
        ELSE Ret(sw.c, "fall", "on", duration)

\* lines 311-330
on_untimed(c, id, duration, t) ==
    IF is_on(c, id) THEN Ret(c, "1", "AlreadyOn", duration)
    ELSE LET c1 == [c EXCEPT !.output_time_turned_on[id] = t]
             sw == output_switch(c1, id, "on", None)
         IN  IF sw.raised THEN Ret(c1, "raise", "SwitchError", duration)
             ELSE Ret(sw.c, "fall", "on", duration)

\* lines 333-353
on_pwm(c, id, duration, duty_cycle, t) ==
    IF c.pwm_hertz[id] <= 0 THEN Ret(c, "1", "InvalidFrequency", duration)
    ELSE LET c1 == [c EXCEPT !.pwm_time_turned_on = Put(@, id, t)]
             sw == output_switch(c1, id, "on", duty_cycle)
         IN  IF sw.raised THEN Ret(c1, "raise", "SwitchError", duration)
             ELSE Ret(Written(sw.c, id, "duty_cycle", duty_cycle), "fall", "on", duration)

\* lines 245-353, what an on-request does once the guards have passed
on_body(c, id, duration, duty_cycle, t) ==
    IF c.output_type[id] \in AmpKinds /\ duration # 0
    THEN IF is_on(c, id) /\ c.output_on_duration[id]
         THEN on_renew(c, id, duration, t)
         ELSE IF is_on(c, id) /\ DOMAIN c.output_on_duration = {}
         THEN on_convert(c, id, duration, t)
         ELSE on_for_duration(c, id, duration, t)
    ELSE IF c.output_type[id] \in AmpKinds
    THEN on_untimed(c, id, duration, t)
    ELSE IF c.output_type[id] = "pwm"
    THEN on_pwm(c, id, duration, duty_cycle, t)
    ELSE Ret(c, "fall", "on", duration)

\* lines 387-413: the on-interval that ends is written to the metrics store
\* an off that records the sample but leaves the timed interval pending
off_record_keeps_interval(c, id, t) ==
    LET timed == c.output_on_duration[id]
        remaining_time == IF c.output_on_until[id] > t
                          THEN c.output_on_until[id] - t ELSE 0
        d1 == IF timed THEN c.output_last_duration[id] - remaining_time ELSE 0
        untimed == c.output_time_turned_on[id] # None
        d2 == IF untimed THEN t - c.output_time_turned_on[id] ELSE d1
        c2 == IF untimed THEN [c EXCEPT !.output_time_turned_on[id] = None] ELSE c
    IN  Ret(Written(c2, id, "duration_sec", d2), "fall", "off", d2)
\* lines 387-413: the duration_sec sample of an off
off_record(c, id, t) ==
    LET timed == c.output_on_duration[id]
        remaining_time == IF c.output_on_until[id] > t
                          THEN c.output_on_until[id] - t ELSE 0
        d1 == IF timed THEN c.output_last_duration[id] - remaining_time ELSE 0
        c1 == IF timed
              THEN [c EXCEPT !.output_on_duration[id] = FALSE,
                             !.output_on_until[id] = t]
              ELSE c
        untimed == c.output_time_turned_on[id] # None
        d2 == IF untimed THEN t - c.output_time_turned_on[id] ELSE d1
        c2 == IF untimed THEN [c1 EXCEPT !.output_time_turned_on[id] = None] ELSE c1
    IN  Ret(Written(c2, id, "duration_sec", d2), "fall", "off", d2)

\* lines 356-413
off_body(c, id, duration, duty_cycle, t) ==
    IF ~is_setup(c, id) THEN Ret(c, "None", "NotSetup", duration)
    ELSE IF invalid_pin(c, id) THEN Ret(c, "None", "InvalidPin", duration)
    ELSE LET sw == output_switch(c, id, "off", None)
             c1 == sw.c
         IN  IF sw.raised THEN Ret(c, "raise", "SwitchError", duration)
             ELSE IF c1.output_type[id] = "pwm" /\ ~Has(c1.pwm_time_turned_on, id)
             THEN Ret(c1, "raise", "KeyError", duration)
             ELSE IF c1.output_type[id] = "pwm" /\ c1.pwm_time_turned_on[id] # None
             THEN Ret(Written([c1 EXCEPT !.pwm_time_turned_on[id] = None],
                              id, "duty_cycle", duty_cycle),
                      "fall", "off", t - c1.pwm_time_turned_on[id])
             ELSE IF c1.output_time_turned_on[id] # None \/ c1.output_on_duration[id]
             THEN off_record(c1, id, t)
             ELSE Ret(c1, "fall", "off", duration)

\* a selection of rules that ignores the duration an 'on' rule requires
rule_matches_any_duration(r, id, on, on_duration) ==
    /\ r.if_relay_id = id
    /\ r.is_activated
    /\ IF on
       THEN r.if_relay_state \in {"on_any", "on"}
       ELSE r.if_relay_state = "off"
\* lines 497-515: the rules selected for an output that is on (or off) after
\* the request, on_duration being the `duration` variable of output_on_off
rule_matches(r, id, on, on_duration) ==
    /\ r.if_relay_id = id
    /\ r.is_activated
    /\ IF on
       THEN \/ r.if_relay_state = "on_any"
            \/ (r.if_relay_state = "on" /\ r.if_relay_duration = on_duration)
       ELSE r.if_relay_state = "off"

\* lines 576-601: an 'email' action.  The log entry keeps what the throttle
\* saw: the count and the end of the window before the action, and the time.
email_action(c, t) ==
    [c EXCEPT !.email_count = IF ~(c.email_count >= HourlyMax /\ t < c.smtp_wait_time)
                                 /\ t > c.smtp_wait_time
                              THEN 1 ELSE @ + 1,
              !.smtp_wait_time = IF ~(c.email_count >= HourlyMax /\ t < c.smtp_wait_time)
                                    /\ t > c.smtp_wait_time
                                 THEN t + Window ELSE @,
              !.allowed_to_send_notice = ~(c.email_count >= HourlyMax /\ t < c.smtp_wait_time),
              !.emails = Append(@, [sent |-> ~(c.email_count >= HourlyMax
                                               /\ t < c.smtp_wait_time),
                                    count |-> c.email_count,
                                    wait |-> c.smtp_wait_time,
                                    t |-> t])]

RECURSIVE output_on_off(_, _, _, _, _, _, _, _, _)
RECURSIVE check_conditionals(_, _, _, _, _, _, _)
RECURSIVE each_conditional(_, _, _, _, _, _, _, _)
RECURSIVE each_cond_action(_, _, _, _, _)

\* lines 524-616: what follows the k-th action of a rule, res being the result
\* of the action; an exception ends the cascade
next_cond_action(res, r, k, t, depth) ==
    IF res.ret = "raise" THEN [c |-> res.c, raised |-> TRUE]
    ELSE each_cond_action(res.c, r, k + 1, t, depth)

\* a toggle action that says nothing about a target that is not registered
invalid_output_id_unreported(c, target) == c
\* lines 533-535: the message of the action names the target that is not registered
invalid_output_id(c, target) == [c EXCEPT !.invalid = Append(@, target)]

\* lines 524-616: the actions of one rule from the k-th on; [c, raised].  A
\* 'relay' action and an 'email' action touch the controller; an unknown
\* target id is reported in the message.
each_cond_action(c, r, k, t, depth) ==
    IF k > Len(r.actions) THEN [c |-> c, raised |-> FALSE]
    ELSE IF r.actions[k].do_action = "relay" /\ Has(c.output_name, r.actions[k].do_relay_id)
    THEN next_cond_action(output_on_off(c, r.actions[k].do_relay_id,
                                        r.actions[k].do_relay_state,
                                        r.actions[k].do_relay_duration,
                                        0, 0, TRUE, t, depth + 1),
                          r, k, t, depth)
    ELSE IF r.actions[k].do_action = "relay"
    THEN each_cond_action(invalid_output_id(c, r.actions[k].do_relay_id), r, k + 1, t, depth)
    ELSE IF r.actions[k].do_action = "email"
    THEN each_cond_action(email_action(c, t), r, k + 1, t, depth)
    ELSE each_cond_action(c, r, k + 1, t, depth)

\* lines 517-616: what follows the n-th rule, res being the result of its actions
next_conditional(res, on, n, id, on_duration, call, t, depth) ==
    IF res.raised THEN res
    ELSE each_conditional(res.c, on, n + 1, id, on_duration, call, t, depth)

\* check_conditionals was entered for a request on output id
Evaluated(c, id, state) ==
    [c EXCEPT !.evaluated = Append(@, [id |-> id, state |-> state])]

\* the rule engine evaluated a rule for the request at position `call` of c.calls
Fired(c, rule, call, on_duration) ==
    [c EXCEPT !.fired = Append(@, [rule |-> rule, call |-> call,
                                   on_duration |-> on_duration])]

\* lines 517-616: the selected rules from the n-th on, in table order.  `call`
\* is the position in c.calls of the request that is being followed up.
each_conditional(c, on, n, id, on_duration, call, t, depth) ==
    IF n > Len(conditional) THEN [c |-> c, raised |-> FALSE]
    ELSE IF ~rule_matches(conditional[n], id, on, on_duration)
    THEN each_conditional(c, on, n + 1, id, on_duration, call, t, depth)
    ELSE next_conditional(
             each_cond_action(Fired(c, conditional[n].id, call, on_duration),
                              conditional[n], 1, t, depth),
             on, n, id, on_duration, call, t, depth)

\* lines 488-616; the query is built once, from is_on at the time of the call
check_conditionals(c, id, state, on_duration, duty_cycle, t, depth) ==
    IF is_on_raises(c, id) THEN [c |-> Evaluated(c, id, state), raised |-> TRUE]
    ELSE each_conditional(Evaluated(c, id, state), is_on(c, id), 1, id, on_duration,
                          Len(c.calls), t, depth)

\* lines 415-419: the result of output_on_off once check_conditionals returned cc
after_conditionals(cc, why, duration) ==
    Ret(cc.c, IF cc.raised THEN "raise" ELSE "None", why, duration)

\* lines 415-419: b is the result of the body; a body that returned or raised
\* ends the call, otherwise the rules are evaluated if they were asked for
then_conditionals(b, id, state, duty_cycle, trigger_conditionals, t, depth) ==
    IF b.ret # "fall" THEN b
    ELSE IF ~trigger_conditionals THEN Ret(b.c, "None", b.why, b.duration)
    ELSE after_conditionals(
             check_conditionals(b.c, id, state, b.duration, duty_cycle, t, depth),
             b.why, b.duration)

\* lines 245-419, what output_on_off does after the guards of an on-request:
\* the body, then the cascade
on_off_body(c, id, state, duration, duty_cycle, trigger_conditionals, t, depth) ==
    then_conditionals(
        IF state = "on" THEN on_body(c, id, duration, duty_cycle, t)
        ELSE IF state = "off" THEN off_body(c, id, duration, duty_cycle, t)
        ELSE Ret(c, "fall", "", duration),
        id, state, duty_cycle, trigger_conditionals, t, depth)

\* the request enters the log of calls
Called(c, id, state, duration, depth) ==
    [c EXCEPT !.calls = Append(@, [id |-> id, state |-> state, duration |-> duration,
                                   depth |-> depth])]

\* guards whose verdict is only reported after the output was switched
guarded_after_switching(g, c, id, state, duration, duty_cycle, trigger_conditionals, t, depth) ==
    IF g = "KeyError" THEN Ret(c, "raise", g, duration)
    ELSE IF g # "ok"
    THEN Ret(on_off_body(c, id, state, duration, duty_cycle, trigger_conditionals,
                         t, depth).c,
             "1", g, duration)
    ELSE on_off_body(c, id, state, duration, duty_cycle, trigger_conditionals, t, depth)
\* lines 194-243: g is the outcome of the guards
guarded(g, c, id, state, duration, duty_cycle, trigger_conditionals, t, depth) ==
    IF g = "KeyError" THEN Ret(c, "raise", g, duration)
    ELSE IF g # "ok" THEN Ret(c, "1", g, duration)
    ELSE on_off_body(c, id, state, duration, duty_cycle, trigger_conditionals, t, depth)

\* lines 157-419
output_on_off(c, id, state, duration, min_off, duty_cycle, trigger_conditionals, t, depth) ==
    IF depth > MaxDepth THEN Ret(c, "raise", "RecursionError", duration)
    ELSE IF unknown_output(c, id) THEN not_found(c, duration)
    ELSE guarded(IF state = "on"
                 THEN on_guard(Called(c, id, state, duration, depth), id, min_off, t)
                 ELSE "ok",
                 Called(c, id, state, duration, depth),
                 id, state, duration, duty_cycle, trigger_conditionals, t, depth)

----------------------------------------------------------------------------
\* Reconciliation with the configuration store.

truthy(x) == x # None /\ x # 0

\* lines 699-718 (and 620-640): the fields copied from a row of table Output
copy_row(c, id, row, t) ==
    [c EXCEPT !.output_id = Put(@, id, row.id),
              !.output_type = Put(@, id, row.relay_type),
              !.output_name = Put(@, id, row.id),
              !.output_pin = Put(@, id, row.pin),
              !.output_amps = Put(@, id, row.amps),
              !.output_trigger = Put(@, id, row.trigger),
              !.output_on_at_start = Put(@, id, row.on_at_start),
              !.output_on_until = Put(@, id, t),
              !.output_time_turned_on = Put(@, id, None),
              !.output_last_duration = Put(@, id, 0),
              !.output_on_duration = Put(@, id, FALSE),
              !.output_on_command = Put(@, id, row.on_command),
              !.output_off_command = Put(@, id, row.off_command),
              !.pwm_hertz = Put(@, id, row.pwm_hertz),
              !.pwm_library = Put(@, id, row.pwm_library)]

\* lines 689-732; `rows` is table Output.  Any exception is caught: (1, message).
add_mod_output(c, id, rows, t) ==
    IF ~Has(rows, id) THEN [c |-> c, ret |-> "1"]
    ELSE LET row == rows[id]
             c0 == [c EXCEPT !.output_type = Put(@, id, row.relay_type)]
             sw == IF Has(c0.output_pin, id) /\ ~output_state_off(c0, id)
                   THEN output_switch(c0, id, "off", None)
                   ELSE [c |-> c0, raised |-> FALSE]
             c1 == copy_row(sw.c, id, row, t)
         IN  IF sw.raised THEN [c |-> c0, ret |-> "1"]
             ELSE IF truthy(c1.output_pin[id]) /\ setup_raises(c1, id)
             THEN [c |-> c1, ret |-> "1"]
             ELSE [c |-> IF truthy(c1.output_pin[id]) THEN setup_pin(c1, id) ELSE c1,
                   ret |-> "0"]

\* lines 757-779: the dicts an id is popped from (output_time_turned_on is not)
pop_output(c, id) ==
    [c EXCEPT !.output_id = Pop(@, id),
              !.output_type = Pop(@, id),
              !.output_name = Pop(@, id),
              !.output_pin = Pop(@, id),
              !.output_amps = Pop(@, id),
              !.output_trigger = Pop(@, id),
              !.output_on_at_start = Pop(@, id),
              !.output_on_until = Pop(@, id),
              !.output_last_duration = Pop(@, id),
              !.output_on_duration = Pop(@, id),
              !.output_on_command = Pop(@, id),
              !.output_off_command = Pop(@, id),
              !.wireless_pi_switch = Pop(@, id),
              !.pwm_hertz = Pop(@, id),
              !.pwm_library = Pop(@, id),
              !.pwm_output = Pop(@, id),
              !.pwm_state = Pop(@, id),
              !.pwm_time_turned_on = Pop(@, id)]

\* lines 748-784; the switch-off is outside the try block
del_output(c, id) ==
    LET sw == IF Has(c.output_pin, id) /\ ~output_state_off(c, id)
              THEN output_switch(c, id, "off", None)
              ELSE [c |-> c, raised |-> FALSE]
    IN  IF sw.raised THEN [c |-> c, ret |-> "raise"]
        ELSE IF ~Has(sw.c.output_id, id) THEN [c |-> sw.c, ret |-> "1"]
        ELSE [c |-> pop_output(sw.c, id), ret |-> "0"]

----------------------------------------------------------------------------
\* Construction: OutputController.__init__.

NoLogs(c) == [c EXCEPT !.switched = <<>>, !.written = <<>>, !.fired = <<>>,
                        !.calls = <<>>, !.emails = <<>>, !.evaluated = <<>>,
                        !.invalid = <<>>]

EmptyController ==
    [output_id |-> <<>>, output_type |-> <<>>, output_name |-> <<>>,
     output_pin |-> <<>>, output_amps |-> <<>>, output_trigger |-> <<>>,
     output_on_at_start |-> <<>>, output_on_until |-> <<>>,
     output_last_duration |-> <<>>, output_on_duration |-> <<>>,
     output_time_turned_on |-> <<>>, output_on_command |-> <<>>,
     output_off_command |-> <<>>, wireless_pi_switch |-> <<>>,
     pwm_hertz |-> <<>>, pwm_output |-> <<>>, pwm_state |-> <<>>,
     pwm_time_turned_on |-> <<>>,
     gpio |-> [p \in Pins |-> FALSE], pwm_library |-> <<>>, pwm_duty |-> <<>>,
     broken |-> {},
     email_count |-> 0, smtp_wait_time |-> 0, allowed_to_send_notice |-> TRUE,
     switched |-> <<>>, written |-> <<>>, fired |-> <<>>, calls |-> <<>>,
     emails |-> <<>>, evaluated |-> <<>>, invalid |-> <<>>]

\* lines 93-98: the throttle of the email action
throttle_initialized(c, t) ==
    [c EXCEPT !.email_count = 0, !.smtp_wait_time = t + Window,
              !.allowed_to_send_notice = TRUE]

\* the ids of a set in ascending order (the order of the rows of the table)
RECURSIVE Ascending(_)
Ascending(S) ==
    IF S = {} THEN <<>>
    ELSE LET m == CHOOSE x \in S : \A y \in S : x <= y
         IN  <<m>> \o Ascending(S \ {m})

\* lines 618-646; [c, raised]: an exception of setup_pin leaves the loop
RECURSIVE all_outputs_initialize(_, _, _, _)
all_outputs_initialize(c, rows, order, t) ==
    IF order = <<>> THEN [c |-> c, raised |-> FALSE]
    ELSE LET id == Head(order)
             c1 == [copy_row(c, id, rows[id], t) EXCEPT
                       !.pwm_time_turned_on = Put(@, id, None)]
             c2 == IF c1.output_pin[id] # None THEN setup_pin(c1, id) ELSE c1
         IN  IF c1.output_pin[id] # None /\ setup_raises(c1, id)
             THEN [c |-> c1, raised |-> TRUE]
             ELSE all_outputs_initialize(c2, rows, Tail(order), t)

\* lines 648-656; [c, raised]
RECURSIVE all_outputs_off(_, _, _)
all_outputs_off(c, order, t) ==
    IF order = <<>> THEN [c |-> c, raised |-> FALSE]
    ELSE LET id == Head(order)
             r == IF c.output_on_at_start[id] = "None" \/ c.output_type[id] = "pwm"
                  THEN Ret(c, "None", "", 0)
                  ELSE output_on_off(c, id, "off", 0, 0, 0, FALSE, t, 0)
         IN  IF r.ret = "raise" THEN [c |-> r.c, raised |-> TRUE]
             ELSE all_outputs_off(r.c, Tail(order), t)

RECURSIVE all_outputs_on(_, _, _)
\* a sweep that requests on for every output, whatever its policy and kind
all_outputs_on_ignoring_policy(c, order, t) ==
    IF order = <<>> THEN [c |-> c, raised |-> FALSE]
    ELSE LET r == output_on_off(c, Head(order), "on", 0, 0, 0, FALSE, t, 0)
         IN  IF r.ret = "raise" THEN [c |-> r.c, raised |-> TRUE]
             ELSE all_outputs_on(r.c, Tail(order), t)
\* lines 658-669; [c, raised]
all_outputs_on(c, order, t) ==
    IF order = <<>> THEN [c |-> c, raised |-> FALSE]
    ELSE LET id == Head(order)
             r == IF c.output_on_at_start[id] = "None" \/ c.output_type[id] = "pwm"
                  THEN Ret(c, "None", "", 0)
                  ELSE IF c.output_on_at_start[id] = "True"
                  THEN output_on_off(c, id, "on", 0, 0, 0, FALSE, t, 0)
                  ELSE output_on_off(c, id, "off", 0, 0, 0, FALSE, t, 0)
         IN  IF r.ret = "raise" THEN [c |-> r.c, raised |-> TRUE]
             ELSE all_outputs_on(r.c, Tail(order), t)

\* lines 92-112: the three sweeps of __init__, inside one try block, from the
\* empty dicts `c0` of lines 57-88
constructed(c0, rows, t) ==
    LET init == all_outputs_initialize(throttle_initialized(c0, t), rows,
                                       Ascending(DOMAIN rows), t)
        off == all_outputs_off(init.c, Ascending(DOMAIN init.c.output_id), t)
    IN  IF init.raised THEN init.c
        ELSE IF off.raised THEN off.c
        ELSE all_outputs_on(off.c, Ascending(DOMAIN off.c.output_id), t).c

\* __init__ with hardware that answers
initialized(rows, t) == constructed(EmptyController, rows, t)

----------------------------------------------------------------------------
\* The configuration store: rows of table Output and the rule tables.

Row(i, kind, pin, amps, trigger, on_at_start, command, hertz) ==
    [id |-> i, relay_type |-> kind, pin |-> pin, amps |-> amps,
     trigger |-> trigger, on_at_start |-> on_at_start,
     on_command |-> command, off_command |-> command, pwm_hertz |-> hertz,
     pwm_library |-> "pigpio_any"]

\* The rows output i may have.  Only its own pin i, pin 0 or no pin; the form
\* sets amps for every kind and leaves a command output without a pin.
Rows(i) ==
    {Row(i, "wired", i, 6, TRUE, "False", FALSE, 0),
     Row(i, "wired", i, 6, FALSE, "True", FALSE, 0),
     Row(i, "wired", 0, 6, TRUE, "None", FALSE, 0),
     Row(i, "wired", None, 6, TRUE, "False", FALSE, 0),
     Row(i, "wireless_433MHz_pi_switch", i, 4, FALSE, "False", TRUE, 0),
     Row(i, "wireless_433MHz_pi_switch", None, 4, FALSE, "True", TRUE, 0),
     Row(i, "command", None, 6, FALSE, "False", TRUE, 0),
     Row(i, "command", None, 4, FALSE, "True", FALSE, 0),
     Row(i, "pwm", i, 6, FALSE, "None", FALSE, 100),
     Row(i, "pwm", i, 4, FALSE, "None", FALSE, 0),
     Row(i, "pwm", None, 6, FALSE, "None", FALSE, 100)}

\* The tables the controller is constructed from.
Tables ==
    {<<Row(1, "wired", 1, 6, TRUE, "False", FALSE, 0),
       Row(2, "command", None, 6, FALSE, "False", TRUE, 0)>>,
     <<Row(1, "wired", 1, 6, FALSE, "True", FALSE, 0),
       Row(2, "pwm", 2, 6, FALSE, "None", FALSE, 100)>>,
     <<Row(1, "wireless_433MHz_pi_switch", 1, 4, FALSE, "False", TRUE, 0)>>,
     <<Row(1, "wired", 0, 6, TRUE, "None", FALSE, 0)>>,
     <<Row(1, "wired", None, 6, TRUE, "False", FALSE, 0),
       Row(2, "pwm", 2, 4, FALSE, "None", FALSE, 0)>>,
     <<Row(1, "wireless_433MHz_pi_switch", None, 4, FALSE, "True", TRUE, 0),
       Row(2, "command", None, 4, FALSE, "True", FALSE, 0)>>}

Action(kind, target, state, duration) ==
    [do_action |-> kind, do_relay_id |-> target, do_relay_state |-> state,
     do_relay_duration |-> duration]

Rule(i, watched, state, duration, actions) ==
    [id |-> i, if_relay_id |-> watched, if_relay_state |-> state,
     if_relay_duration |-> duration, is_activated |-> TRUE, actions |-> actions]

\* Rule 1 watches output 1 turning on for exactly 2 seconds.
Rules ==
    <<Rule(1, 1, "on", 2, <<Action("relay", 2, "on", 1)>>),
      Rule(2, 1, "off", 0, <<Action("command", 0, "", 0)>>),
      Rule(3, 2, "on_any", 0, <<Action("command", 0, "", 0)>>)>>

RuleSets == {Rules}

\* Rules that send an email whenever output 1 is turned on or off.
MailRules ==
    <<Rule(1, 1, "on_any", 0, <<Action("email", 0, "", 0)>>),
      Rule(2, 1, "off", 0, <<Action("email", 0, "", 0)>>)>>

MailTables ==
    {<<Row(1, "wired", 1, 6, TRUE, "False", FALSE, 0)>>,
     <<Row(1, "command", None, 4, FALSE, "False", TRUE, 0)>>}

\* Rules whose cascade has something left to do after a toggle action: the
\* first rule toggles output 2 and then sends an email, the second sends one.
CascadeRules ==
    <<Rule(1, 1, "on_any", 0, <<Action("relay", 2, "on", 0), Action("email", 0, "", 0)>>),
      Rule(2, 1, "on_any", 0, <<Action("email", 0, "", 0)>>)>>

CascadeTables ==
    {<<Row(1, "wired", 1, 4, TRUE, "False", FALSE, 0),
       Row(2, "wireless_433MHz_pi_switch", 2, 4, FALSE, "False", TRUE, 0)>>,
     <<Row(1, "wired", 1, 4, TRUE, "False", FALSE, 0)>>}

----------------------------------------------------------------------------
\* The state machine.

NoEvent ==
    [op |-> "init", id |-> 0, state |-> "", duration |-> 0, min_off |-> 0,
     ret |-> "", why |-> ""]

NoInterval == [id |-> 0, d |-> 0, samples |-> <<>>]

\* line 112: the thread was constructed and run() has not started
Constructed == [running |-> FALSE, pc |-> "start", stops |-> 0, sweeps |-> 0]

\* lines 116-120: run() is inside its while loop
Looping == [running |-> TRUE, pc |-> "while", stops |-> 0, sweeps |-> 0]

NoScript == [step |-> 0, x |-> 0, y |-> 0]

Registered == DOMAIN ctl.output_id

\* what is_on and current_amp_load report where they do not raise
Observed(c, id) == Has(c.output_id, id) /\ ~is_on_raises(c, id) /\ is_on(c, id)
Load(c) == IF current_amp_load_raises(c) THEN 0 ELSE current_amp_load(c)

Event(op, q, r) ==
    [op |-> op, id |-> q.id, state |-> q.state, duration |-> q.duration,
     min_off |-> q.min_off, ret |-> r.ret, why |-> r.why]

\* the duration_sec samples of one step that belong to output id
Samples(c, id) ==
    LET w == SelectSeq(c.written, LAMBDA x : x.id = id /\ x.kind = "duration_sec")
    IN  [k \in 1..Len(w) |-> w[k].value]

Cut(seq) == IF Len(seq) > MaxSamples THEN SubSeq(seq, 1, MaxSamples) ELSE seq

\* the followed interval after a step of the scheduler or of one of its threads;
\* a cascaded request on the output ends the observation
Followed(c) ==
    IF interval.id = 0 THEN interval
    ELSE IF \E k \in 1..Len(c.calls) : c.calls[k].id = interval.id /\ c.calls[k].depth > 0
    THEN NoInterval
    ELSE [interval EXCEPT !.samples = Cut(@ \o Samples(c, interval.id))]

\* an on-request for a duration that starts a fresh timed interval
Starts(q, r) ==
    /\ Has(ctl.output_id, q.id)
    /\ q.state = "on" /\ q.duration > 0 /\ r.why = "on" /\ r.ret = "None"
    /\ ctl.output_type[q.id] \in AmpKinds
    /\ ~ctl.output_on_duration[q.id] /\ ~is_on(ctl, q.id)
    /\ Len(r.c.calls) = 1

\* an output that can be switched: a current-drawing kind with what its
\* backend needs
Operable(c, id) ==
    /\ Has(c.output_id, id)
    /\ c.output_type[id] \in AmpKinds
    /\ ~invalid_pin(c, id)
    /\ is_setup(c, id)
    /\ c.output_type[id] = "wireless_433MHz_pi_switch" => Has(c.wireless_pi_switch, id)

Plain(q, state) == q.state = state /\ q.duration = 0 /\ q.min_off = 0

\* the scenario of two outputs that do not fit the budget together: the step
\* reached after request q, made in the state before it
Scripted(q) ==
    IF /\ script.step = 1 /\ Plain(q, "on") /\ q.id # script.x
       /\ Operable(ctl, q.id)
       /\ ctl.output_amps[q.id] <= MaxAmps
       /\ ctl.output_amps[script.x] + ctl.output_amps[q.id] > MaxAmps
    THEN [step |-> 2, x |-> script.x, y |-> q.id]
    ELSE IF script.step = 2 /\ Plain(q, "off") /\ q.id = script.x
    THEN [script EXCEPT !.step = 3]
    ELSE IF script.step = 3 /\ Plain(q, "on") /\ q.id = script.y
    THEN [script EXCEPT !.step = 4]
    ELSE IF /\ Plain(q, "on")
            /\ Operable(ctl, q.id)
            /\ ~current_amp_load_raises(ctl)
            /\ \A i \in Registered : ~is_on(ctl, i)
            /\ \E y \in Registered \ {q.id} :
                  /\ Operable(ctl, y)
                  /\ ctl.output_amps[q.id] <= MaxAmps /\ ctl.output_amps[y] <= MaxAmps
                  /\ ctl.output_amps[q.id] + ctl.output_amps[y] > MaxAmps
    THEN [step |-> 1, x |-> q.id, y |-> 0]
    ELSE NoScript

Init ==
    /\ conditional \in RuleSets
    /\ now = 0
    /\ db \in Tables
    /\ ctl = initialized(db, 0)
    /\ threads = [i \in Ids |-> 0]
    /\ approved = {}
    /\ ev = NoEvent
    /\ interval = NoInterval
    /\ script = NoScript
    /\ loop = Looping

\* time passes
Tick ==
    /\ now < MaxTime
    /\ now' = now + 1
    /\ UNCHANGED <<ctl, db, conditional, threads, approved, ev, interval, script, loop>>

\* a caller invokes output_on_off (lines 157-419)
Switched(q, r) ==
    /\ ctl' = r.c
    /\ ev' = Event("switch", q, r)
    /\ interval' = IF Starts(q, r)
                   THEN [id |-> q.id, d |-> q.duration, samples |-> <<>>]
                   ELSE NoInterval
    /\ script' = Scripted(q)
    /\ UNCHANGED <<db, conditional, now, threads, approved, loop>>

Switch(q) ==
    Switched(q, output_on_off(NoLogs(ctl), q.id, q.state, q.duration, q.min_off,
                              q.duty_cycle, q.trigger_conditionals, now, 0))

\* lines 125-127
expired(c, id, t) ==
    /\ c.output_on_until[id] < t
    /\ c.output_on_duration[id]
    /\ c.output_pin[id] # None

\* lines 137-146: the loop writes a sample for every expired output it finds
RECURSIVE run_written(_, _)
run_written(c, order) ==
    IF order = <<>> THEN c
    ELSE LET id == Head(order)
         IN  run_written(IF c.output_last_duration[id] > 0
                         THEN Written(c, id, "duration_sec", c.output_last_duration[id])
                         ELSE c,
                         Tail(order))

\* one pass of the loop of run() (lines 121-148) that finds an expired output:
\* an off-thread is started for each
Polled(E, c1) ==
    /\ E # {}
    /\ \A id \in E : threads[id] < MaxThreads
    /\ ctl' = c1
    /\ threads' = [i \in Ids |-> IF i \in E THEN threads[i] + 1 ELSE threads[i]]
    /\ ev' = [NoEvent EXCEPT !.op = "run"]
    /\ interval' = Followed(c1)
    /\ script' = NoScript
    /\ UNCHANGED <<db, conditional, now, approved, loop>>

Expired == {id \in Registered : expired(ctl, id, now)}

RunLoop ==
    /\ loop.pc = "while" /\ loop.running
    /\ Polled(Expired, run_written(NoLogs(ctl), Ascending(Expired)))

OffRequest(id) ==
    [id |-> id, state |-> "off", duration |-> 0, min_off |-> 0, duty_cycle |-> 0,
     trigger_conditionals |-> TRUE]

\* a thread started by run() executes output_on_off(output_id, 'off')
ThreadDone(id, r) ==
    /\ threads[id] > 0
    /\ threads' = [threads EXCEPT ![id] = @ - 1]
    /\ ctl' = r.c
    /\ ev' = Event("thread", OffRequest(id), r)
    /\ interval' = Followed(r.c)
    /\ script' = NoScript
    /\ UNCHANGED <<db, conditional, now, approved, loop>>

OffThread(id) ==
    ThreadDone(id, output_on_off(NoLogs(ctl), id, "off", 0, 0, 0, TRUE, now, 0))

SetupEvent(op, id, r) ==
    [NoEvent EXCEPT !.op = op, !.id = id, !.ret = r.ret]

\* output_setup('Add' | 'Modify', id) after the row was written (lines 801-804);
\* the form does not change the kind of an output
Modified(row, r) ==
    /\ Has(db, row.id) => (row.relay_type = db[row.id].relay_type /\ row # db[row.id])
    /\ db' = Put(db, row.id, row)
    /\ ctl' = r.c
    /\ ev' = SetupEvent(IF Has(db, row.id) THEN "Modify" ELSE "Add", row.id, r)
    /\ interval' = NoInterval
    /\ script' = NoScript
    /\ UNCHANGED <<conditional, now, threads, approved, loop>>

Modify(row) ==
    Modified(row, add_mod_output(NoLogs(ctl), row.id, Put(db, row.id, row), now))

\* output_setup('Delete', id) after the row was deleted (lines 805-806)
Deleted(id, r) ==
    /\ Has(db, id)
    /\ db' = Pop(db, id)
    /\ ctl' = r.c
    /\ ev' = SetupEvent("Delete", id, r)
    /\ interval' = NoInterval
    /\ script' = NoScript
    /\ UNCHANGED <<conditional, now, threads, approved, loop>>

Delete(id) == Deleted(id, del_output(NoLogs(ctl), id))

\* the requests callers make: a duty cycle goes to a PWM output only, a
\* duration and a minimum-off interval come with an on-request only
Requests ==
    {q \in [id : Ids, state : {"on", "off"}, duration : Durations, min_off : MinOffs,
            duty_cycle : DutyCycles, trigger_conditionals : BOOLEAN] :
        /\ q.state = "off" => q.duration = 0
        /\ q.duty_cycle # 0 =>
              (Has(ctl.output_type, q.id) /\ ctl.output_type[q.id] = "pwm")}

Next ==
    \/ Tick
    \/ \E q \in Requests : Switch(q)
    \/ RunLoop
    \/ \E id \in Ids : OffThread(id)
    \/ \E id \in Ids : Delete(id)

Spec == Init /\ [][Next]_vars

----------------------------------------------------------------------------
\* Two phases of an on-request, as two threads interleave them: the guards
\* (lines 185-243), then the switch and what follows it (lines 245-419).

RaceRequests ==
    {q \in Requests : q.state = "on" /\ q.min_off = 0 /\ q.trigger_conditionals}

BeginOn(q) ==
    /\ Cardinality(approved) < MaxApproved
    /\ q \notin approved
    /\ ~unknown_output(ctl, q.id)
    /\ on_guard(ctl, q.id, q.min_off, now) = "ok"
    /\ approved' = approved \cup {q}
    /\ ev' = [NoEvent EXCEPT !.op = "begin", !.id = q.id, !.state = "on",
                             !.duration = q.duration]
    /\ UNCHANGED <<ctl, db, conditional, now, threads, interval, script, loop>>

Committed(q, r) ==
    /\ q \in approved
    /\ approved' = approved \ {q}
    /\ ctl' = r.c
    /\ ev' = Event("commit", q, r)
    /\ UNCHANGED <<db, conditional, now, threads, interval, script, loop>>

CommitOn(q) ==
    Committed(q, on_off_body(Called(NoLogs(ctl), q.id, q.state, q.duration, 0),
                             q.id, q.state, q.duration, q.duty_cycle,
                             q.trigger_conditionals, now, 0))

RaceNext ==
    \/ \E q \in RaceRequests : BeginOn(q)
    \/ \E q \in approved : CommitOn(q)
    \/ \E id \in Ids : Switch(OffRequest(id))

SpecRace == Init /\ [][RaceNext]_vars

----------------------------------------------------------------------------
\* The scheduler under fair scheduling: the clock advances, the loop of run()
\* keeps polling and every thread it starts gets to run.  An on-request for a
\* duration is made early enough for its end to lie within the clock's range.

LiveSwitch(q) ==
    /\ q.duration > 0 => now + q.duration < MaxTime
    /\ Switch(q)

LiveNext ==
    \/ Tick
    \/ \E q \in Requests : LiveSwitch(q)
    \/ RunLoop
    \/ \E id \in Ids : OffThread(id)

----------------------------------------------------------------------------
\* The cascade with email actions: every request on output 1 that is carried
\* out sends, or suppresses, one email.

InitMail ==
    /\ conditional = MailRules
    /\ now = 0
    /\ db \in MailTables
    /\ ctl = initialized(db, 0)
    /\ threads = [i \in Ids |-> 0]
    /\ approved = {}
    /\ ev = NoEvent
    /\ interval = NoInterval
    /\ script = NoScript
    /\ loop = Looping

MailSwitch(q) ==
    /\ ctl.email_count < MaxMails
    /\ q.min_off = 0 /\ q.duration = 0
    /\ Switch(q)

MailNext ==
    \/ Tick
    \/ \E q \in Requests : MailSwitch(q)

SpecMail == InitMail /\ [][MailNext]_vars

----------------------------------------------------------------------------
\* Shutdown: stop_controller is called by another thread; run() leaves its
\* while loop when it next reads self.running and executes its finally block.

\* a stop that flips the flag instead of clearing it
stop_controller_toggles(l) == [l EXCEPT !.running = ~@, !.stops = @ + 1]
\* lines 944-947
stop_controller(l) == [l EXCEPT !.running = FALSE, !.stops = @ + 1]

\* lines 671-673: GPIO.cleanup is called with each key of self.output_pin
RECURSIVE cleanup_gpio(_, _)
cleanup_gpio(c, order) ==
    IF order = <<>> THEN c
    ELSE cleanup_gpio(Logged(c, Head(order), "cleanup"), Tail(order))

LoopEvent(op, ret) == [NoEvent EXCEPT !.op = op, !.ret = ret]

InitStop ==
    /\ conditional \in RuleSets
    /\ now = 0
    /\ db \in Tables
    /\ ctl = initialized(db, 0)
    /\ threads = [i \in Ids |-> 0]
    /\ approved = {}
    /\ ev = NoEvent
    /\ interval = NoInterval
    /\ script = NoScript
    /\ loop = Constructed

\* lines 115-120: the thread starts
StartRun ==
    /\ loop.pc = "start"
    /\ loop' = [loop EXCEPT !.running = TRUE, !.pc = "while"]
    /\ ev' = LoopEvent("start", "None")
    /\ UNCHANGED <<ctl, db, conditional, now, threads, approved, interval, script>>

\* a caller invokes stop_controller, which returns at once
StopController ==
    /\ loop.stops < MaxStops
    /\ loop' = stop_controller(loop)
    /\ ev' = LoopEvent("stop", "None")
    /\ UNCHANGED <<ctl, db, conditional, now, threads, approved, interval, script>>

\* lines 149-152: all_outputs_off, then cleanup_gpio unless the sweep raised
Swept(off) ==
    /\ ctl' = IF off.raised THEN off.c
              ELSE cleanup_gpio(off.c, Ascending(DOMAIN off.c.output_pin))
    /\ loop' = [loop EXCEPT !.running = FALSE, !.pc = "ended", !.sweeps = @ + 1]
    /\ ev' = LoopEvent("shutdown", IF off.raised THEN "raise" ELSE "None")
    /\ interval' = NoInterval
    /\ script' = NoScript
    /\ UNCHANGED <<db, conditional, now, threads, approved>>

\* run() finds self.running false and executes its finally block
Shutdown ==
    /\ loop.pc = "while" /\ ~loop.running
    /\ Swept(all_outputs_off(NoLogs(ctl), Ascending(Registered), now))

StopSwitch(q) ==
    /\ loop.pc = "while"
    /\ q.min_off = 0 /\ ~q.trigger_conditionals
    /\ Switch(q)

StopNext ==
    \/ StartRun
    \/ Tick
    \/ \E q \in Requests : StopSwitch(q)
    \/ RunLoop
    \/ \E id \in Ids : OffThread(id)
    \/ StopController
    \/ Shutdown

SpecStop == InitStop /\ [][StopNext]_vars

----------------------------------------------------------------------------
\* Queries and reconciliation on ids the caller picks freely.

\* lines 898-916: is_on as a caller sees it; "raise" is an uncaught KeyError
is_on_called(c, id) ==
    IF ~Has(c.output_type, id) \/ is_on_raises(c, id) THEN "raise"
    ELSE IF is_on(c, id) THEN "True" ELSE "False"

\* lines 786-799: output_sec_currently_on as a caller sees it
output_sec_currently_on_called(c, id, t) ==
    IF is_on_called(c, id) = "raise" THEN "raise"
    ELSE ToString(output_sec_currently_on(c, id, t))

Queried(op, id, ret) ==
    /\ ev' = [NoEvent EXCEPT !.op = op, !.id = id, !.ret = ret]
    /\ ctl' = NoLogs(ctl)
    /\ interval' = NoInterval
    /\ script' = NoScript
    /\ UNCHANGED <<db, conditional, now, threads, approved, loop>>

IsOn(id) == Queried("is_on", id, is_on_called(ctl, id))

SecOn(id) == Queried("output_sec_currently_on", id, output_sec_currently_on_called(ctl, id, now))

Reconciled(op, id, r) ==
    /\ ~Has(db, id)
    /\ ctl' = r.c
    /\ ev' = SetupEvent(op, id, r)
    /\ interval' = NoInterval
    /\ script' = NoScript
    /\ UNCHANGED <<db, conditional, now, threads, approved, loop>>

\* output_setup('Modify', id) for an id that has no row in table Output
ModifyMissing(id) == Reconciled("Modify", id, add_mod_output(NoLogs(ctl), id, db, now))

\* output_setup('Delete', id) for an id that has no row in table Output
DeleteMissing(id) == Reconciled("Delete", id, del_output(NoLogs(ctl), id))

QuerySwitch(q) ==
    /\ q.min_off = 0 /\ ~q.trigger_conditionals
    /\ Switch(q)

QueryNext ==
    \/ Tick
    \/ \E q \in Requests : QuerySwitch(q)
    \/ \E id \in Ids : Delete(id)
    \/ \E id \in Ids : IsOn(id)
    \/ \E id \in Ids : SecOn(id)
    \/ \E id \in Ids : ModifyMissing(id)
    \/ \E id \in Ids : DeleteMissing(id)

SpecQuery == Init /\ [][QueryNext]_vars

----------------------------------------------------------------------------
\* Hardware that fails: the calls output_switch makes on a broken output raise.

Broke(id, c) ==
    /\ Has(ctl.output_id, id)
    /\ ctl.output_type[id] \in PinKinds
    /\ ctl' = c
    /\ ev' = [NoEvent EXCEPT !.op = "break", !.id = id]
    /\ interval' = NoInterval
    /\ script' = NoScript
    /\ UNCHANGED <<db, conditional, now, threads, approved, loop>>

\* the hardware of an output starts failing
Break(id) ==
    /\ ctl.broken = {}
    /\ Broke(id, [NoLogs(ctl) EXCEPT !.broken = {id}])

FailSwitch(q) ==
    /\ q.min_off = 0 /\ ~q.trigger_conditionals
    /\ Switch(q)

FailNext ==
    \/ Tick
    \/ \E q \in Requests : FailSwitch(q)
    \/ \E id \in Ids : Break(id)

SpecFail == Init /\ [][FailNext]_vars

----------------------------------------------------------------------------
\* Requests that ask for the rules to be evaluated.

RuleSwitch(q) ==
    /\ q.trigger_conditionals /\ q.min_off = 0
    /\ Switch(q)

RuleNext ==
    \/ Tick
    \/ \E q \in Requests : RuleSwitch(q)

SpecRules == Init /\ [][RuleNext]_vars

----------------------------------------------------------------------------
\* A cascade in which an action can fail.

InitCascade ==
    /\ conditional = CascadeRules
    /\ now = 0
    /\ db \in CascadeTables
    /\ ctl = initialized(db, 0)
    /\ threads = [i \in Ids |-> 0]
    /\ approved = {}
    /\ ev = NoEvent
    /\ interval = NoInterval
    /\ script = NoScript
    /\ loop = Looping

CascadeSwitch(q) ==
    /\ ctl.email_count < MaxMails
    /\ q.trigger_conditionals /\ q.min_off = 0 /\ q.duration = 0
    /\ Switch(q)

CascadeNext ==
    \/ Tick
    \/ \E q \in Requests : CascadeSwitch(q)
    \/ \E id \in Ids : Break(id)

SpecCascade == InitCascade /\ [][CascadeNext]_vars

----------------------------------------------------------------------------
\* Edits of registered outputs while the controller runs.

ModifySwitch(q) ==
    /\ q.min_off = 0 /\ ~q.trigger_conditionals /\ q.duration = 0
    /\ Switch(q)

ModifyNext ==
    \/ Tick
    \/ \E q \in Requests : ModifySwitch(q)
    \/ \E id \in DOMAIN db : \E row \in Rows(id) : Modify(row)

SpecModify == Init /\ [][ModifyNext]_vars

-----------------------------------------------------------------------------
\* Construction with a wireless output whose transmitter cannot be built.

StartupTables ==
    {<<Row(1, "wireless_433MHz_pi_switch", 1, 4, FALSE, "False", TRUE, 0),
       Row(2, "wired", 2, 4, FALSE, "True", FALSE, 0)>>,
     <<Row(1, "wired", 1, 4, FALSE, "True", FALSE, 0),
       Row(2, "wireless_433MHz_pi_switch", 2, 4, FALSE, "False", TRUE, 0)>>}

\* the outputs of the table whose registration raises
failing(rows, bad) ==
    {id \in DOMAIN rows : /\ id \in bad
                          /\ rows[id].relay_type = "wireless_433MHz_pi_switch"
                          /\ rows[id].pin # None}

InitStartup ==
    /\ conditional \in RuleSets
    /\ now = 0
    /\ db \in StartupTables
    /\ \E bad \in SUBSET Ids :
          ctl = constructed([EmptyController EXCEPT !.broken = bad], db, 0)
    /\ threads = [i \in Ids |-> 0]
    /\ approved = {}
    /\ ev = NoEvent
    /\ interval = NoInterval
    /\ script = NoScript
    /\ loop = Looping

StartupSwitch(q) ==
    /\ q.min_off = 0 /\ ~q.trigger_conditionals /\ q.duration = 0
    /\ Switch(q)

StartupNext ==
    \/ Tick
    \/ \E q \in Requests : StartupSwitch(q)

SpecStartup == InitStartup /\ [][StartupNext]_vars

-----------------------------------------------------------------------------
\* Duty cycles of any size on both PWM backends.

DutyTables ==
    {<<[Row(1, "pwm", 1, 4, FALSE, "None", FALSE, 100) EXCEPT
           !.pwm_library = "pigpio_hardware"],
       Row(2, "pwm", 2, 4, FALSE, "None", FALSE, 100)>>}

RequestedDutyCycles == {-150, -20, 0, 50, 100, 150}

DutyRequests ==
    {q \in [id : Ids, state : {"on", "off"}, duration : {0}, min_off : {0},
            duty_cycle : RequestedDutyCycles, trigger_conditionals : {FALSE}] :
        q.state = "off" => q.duty_cycle = 0}

InitDuty ==
    /\ conditional \in RuleSets
    /\ now = 0
    /\ db \in DutyTables
    /\ ctl = initialized(db, 0)
    /\ threads = [i \in Ids |-> 0]
    /\ approved = {}
    /\ ev = NoEvent
    /\ interval = NoInterval
    /\ script = NoScript
    /\ loop = Looping

DutyNext ==
    \/ Tick
    \/ \E q \in DutyRequests : Switch(q)

SpecDuty == InitDuty /\ [][DutyNext]_vars

-----------------------------------------------------------------------------
\* Outputs added, edited and deleted while the controller runs.

ReconcileSwitch(q) ==
    /\ q.min_off = 0 /\ ~q.trigger_conditionals /\ q.duration = 0
    /\ Switch(q)

\* the rows a user adds for output i: a PWM output and a wired one
AddRows(i) ==
    {Row(i, "pwm", i, 6, FALSE, "None", FALSE, 100),
     Row(i, "wired", i, 6, TRUE, "False", FALSE, 0)}

\* output_setup('Add', id) for a new row of table Output
Add(row) ==
    /\ ~Has(db, row.id)
    /\ Modify(row)

ReconcileNext ==
    \/ Tick
    \/ \E q \in Requests : ReconcileSwitch(q)
    \/ \E id \in Ids : \E row \in AddRows(id) : Add(row)
    \/ \E id \in Ids : Delete(id)

SpecReconcile == Init /\ [][ReconcileNext]_vars

-----------------------------------------------------------------------------
\* Rules whose toggle actions form a cycle.

\* Rule 1 turns output 1 off when it turns off; rules 2 and 3 turn each of the
\* two outputs on when the other turns on.
CycleRules ==
    <<Rule(1, 1, "off", 0, <<Action("relay", 1, "off", 0)>>),
      Rule(2, 1, "on_any", 0, <<Action("relay", 2, "on", 0)>>),
      Rule(3, 2, "on_any", 0, <<Action("relay", 1, "on", 0)>>)>>

CycleTables ==
    {<<Row(1, "wired", 1, 4, TRUE, "False", FALSE, 0),
       Row(2, "wired", 2, 4, TRUE, "False", FALSE, 0)>>,
     <<Row(1, "wired", 1, 4, TRUE, "True", FALSE, 0),
       Row(2, "command", None, 4, FALSE, "False", TRUE, 0)>>}

InitCycle ==
    /\ conditional = CycleRules
    /\ now = 0
    /\ db \in CycleTables
    /\ ctl = initialized(db, 0)
    /\ threads = [i \in Ids |-> 0]
    /\ approved = {}
    /\ ev = NoEvent
    /\ interval = NoInterval
    /\ script = NoScript
    /\ loop = Looping

CycleSwitch(q) ==
    /\ q.min_off = 0 /\ q.duty_cycle = 0 /\ q.duration = 0
    /\ Switch(q)

CycleNext ==
    \/ Tick
    \/ \E q \in Requests : CycleSwitch(q)

SpecCycle == InitCycle /\ [][CycleNext]_vars

-----------------------------------------------------------------------------
\* The scan of run() one output at a time, while other threads add and delete
\* outputs.  The for statement of line 122 iterates over self.output_id itself:
\* the iterator raises RuntimeError when the dict has changed size since the
\* iteration began.

\* run() is inside its while loop; `seen` are the ids the for statement has
\* visited and `size` is the size of self.output_id when it began
Scanning ==
    [running |-> TRUE, pc |-> "while", stops |-> 0, sweeps |-> 0,
     seen |-> {}, size |-> 0, error |-> ""]

ScanTables ==
    {<<Row(1, "wired", 1, 4, TRUE, "False", FALSE, 0)>>,
     <<Row(1, "wired", 1, 4, TRUE, "False", FALSE, 0),
       Row(2, "wireless_433MHz_pi_switch", 2, 4, FALSE, "False", TRUE, 0)>>}

InitScan ==
    /\ conditional \in RuleSets
    /\ now = 0
    /\ db \in ScanTables
    /\ ctl = initialized(db, 0)
    /\ threads = [i \in Ids |-> 0]
    /\ approved = {}
    /\ ev = NoEvent
    /\ interval = NoInterval
    /\ script = NoScript
    /\ loop = Scanning

\* lines 120-122: the while test succeeds and the for statement begins
BeginScan ==
    /\ loop.pc = "while" /\ loop.running
    /\ loop' = [loop EXCEPT !.pc = "for", !.seen = {}, !.size = Cardinality(Registered)]
    /\ ev' = LoopEvent("scan", "None")
    /\ UNCHANGED <<ctl, db, conditional, now, threads, approved, interval, script>>

\* the id the iterator yields next
next_output_id(l, c) == CHOOSE id \in DOMAIN c.output_id \ l.seen :
                            \A other \in DOMAIN c.output_id \ l.seen : id <= other

\* lines 122-146: the body of the for statement for one output
ScanVisit ==
    /\ loop.pc = "for"
    /\ Cardinality(Registered) = loop.size
    /\ Registered \ loop.seen # {}
    /\ LET id == next_output_id(loop, ctl)
       IN  /\ loop' = [loop EXCEPT !.seen = @ \cup {id}]
           /\ IF expired(ctl, id, now)
              THEN /\ threads[id] < MaxThreads
                   /\ threads' = [threads EXCEPT ![id] = @ + 1]
                   /\ ctl' = run_written(NoLogs(ctl), <<id>>)
              ELSE /\ threads' = threads
                   /\ ctl' = NoLogs(ctl)
    /\ ev' = LoopEvent("visit", "None")
    /\ interval' = NoInterval
    /\ script' = NoScript
    /\ UNCHANGED <<db, conditional, now, approved>>

\* line 148: the for statement is exhausted and the loop sleeps
ScanDone ==
    /\ loop.pc = "for"
    /\ Cardinality(Registered) = loop.size
    /\ Registered \ loop.seen = {}
    /\ loop' = [loop EXCEPT !.pc = "while"]
    /\ ev' = LoopEvent("sleep", "None")
    /\ UNCHANGED <<ctl, db, conditional, now, threads, approved, interval, script>>

\* what run() leaves behind when the for statement raises: the finally block
\* of lines 149-152 runs and the exception ends the thread
ScanEnded(off) ==
    /\ ctl' = IF off.raised THEN off.c
              ELSE cleanup_gpio(off.c, Ascending(DOMAIN off.c.output_pin))
    /\ loop' = [loop EXCEPT !.running = FALSE, !.pc = "ended", !.sweeps = @ + 1,
                            !.error = "RuntimeError"]
    /\ ev' = LoopEvent("shutdown", "raise")
    /\ interval' = NoInterval
    /\ script' = NoScript
    /\ UNCHANGED <<db, conditional, now, threads, approved>>

\* line 122: self.output_id changed size during the iteration
ScanRaised ==
    /\ loop.pc = "for"
    /\ Cardinality(Registered) # loop.size
    /\ ScanEnded(all_outputs_off(NoLogs(ctl), Ascending(Registered), now))

ScanSwitch(q) ==
    /\ q.min_off = 0 /\ ~q.trigger_conditionals /\ q.duty_cycle = 0
    /\ q.state = "on" => q.duration = 1
    /\ q.id = 1
    /\ Switch(q)

ScanNext ==
    \/ Tick
    \/ \E q \in Requests : ScanSwitch(q)
    \/ BeginScan
    \/ ScanVisit
    \/ ScanDone
    \/ ScanRaised
    \/ \E id \in Ids : OffThread(id)
    \/ \E row \in AddRows(2) : Add(row)
    \/ Delete(2)

SpecScan == InitScan /\ [][ScanNext]_vars

-----------------------------------------------------------------------------
\* The thread of run() and a caller of stop_controller, each scheduled fairly.

SignalNext ==
    \/ StartRun
    \/ Tick
    \/ StopController
    \/ Shutdown

\* Weak fairness of Shutdown is written out: Shutdown is enabled exactly when
\* run() is at its while test with self.running false.
SpecSignal ==
    /\ InitStop
    /\ [][SignalNext]_vars
    /\ WF_vars(StartRun)
    /\ ([]<>~(loop.pc = "while" /\ ~loop.running) \/ []<><<Shutdown>>_vars)

SpecLive ==
    /\ Init
    /\ [][LiveNext]_vars
    /\ WF_vars(Tick)
    /\ WF_vars(RunLoop)
    /\ \A id \in Ids : WF_vars(OffThread(id))

----------------------------------------------------------------------------
\* Properties.

\* the outcomes of an on-request that was not refused
Accepted == {"0", "None"}

\* the refusals of the checks of lines 194-243 and 333-342
Denials == {"InvalidPin", "BudgetExceeded", "MinOffNotElapsed", "InvalidFrequency"}

\* a step that is one call of output_on_off by an external caller
SwitchStep == ev'.op = "switch" /\ now' = now /\ threads' = threads /\ db' = db

RuleOf(i) == CHOOSE n \in 1..Len(conditional) : conditional[n].id = i

\* C1: in every reachable state the rated draws of the outputs observed on add
\* up to at most the configured maximum.
C1_LoadWithinBudget ==
    ~current_amp_load_raises(ctl) => current_amp_load(ctl) <= MaxAmps

\* C2: however two on-requests for two different current-drawing outputs are
\* interleaved, the two outputs are not both switched on when their draws do
\* not fit the budget together.
C2_NotBothSwitchedOn ==
    \A x, y \in Registered :
        (/\ x # y
         /\ ctl.output_type[x] \in AmpKinds /\ ctl.output_type[y] \in AmpKinds
         /\ Observed(ctl, x) /\ Observed(ctl, y))
        => ctl.output_amps[x] + ctl.output_amps[y] <= MaxAmps

\* C3: once an output of a current-drawing kind that was turned on for a
\* duration d has run out and the scheduler is done with it, the output is
\* observed off and exactly one duration_sec sample, of value d, was written
\* for the interval.
C3_OneSamplePerInterval ==
    (/\ interval.id # 0
     /\ ~ctl.output_on_duration[interval.id]
     /\ threads[interval.id] = 0)
    => /\ ~Observed(ctl, interval.id)
       /\ interval.samples = <<interval.d>>

\* C4: after an on-request that was not refused, with or without a duration,
\* on an output that is set up, is_on reports the output on and
\* current_amp_load includes its draw.
C4_OnAfterAcceptedOn ==
    (/\ ev.op = "switch" /\ ev.state = "on" /\ ev.ret \in Accepted
     /\ is_setup(ctl, ev.id)
     /\ \A k \in 2..Len(ctl.calls) : ctl.calls[k].id # ev.id
     /\ ~current_amp_load_raises(ctl))
    => /\ Observed(ctl, ev.id)
       /\ current_amp_load(ctl) >= ctl.output_amps[ev.id]

\* C5: under fair scheduling of the loop of run() and of its threads, an
\* output that is on for a duration is eventually turned off.
C5_TimedOnEventuallyOff ==
    \A id \in Ids :
        (Has(ctl.output_on_duration, id) /\ ctl.output_on_duration[id])
        ~> ~(Has(ctl.output_on_duration, id) /\ ctl.output_on_duration[id])

\* C6: an on-request refused for an invalid pin, an exceeded budget, a
\* minimum-off interval that has not elapsed or a non-positive PWM frequency
\* returns 1, switches nothing, records nothing, fires no rule and leaves
\* every runtime field of every output as it was.
C6_DeniedOnChangesNothing ==
    [][(SwitchStep /\ ev'.state = "on" /\ ev'.why \in Denials) =>
          /\ ev'.ret = "1"
          /\ NoLogs(ctl') = NoLogs(ctl)
          /\ current_amp_load_raises(ctl') = current_amp_load_raises(ctl)
          /\ Load(ctl') = Load(ctl)
          /\ ctl'.switched = <<>>
          /\ ctl'.written = <<>>
          /\ ctl'.fired = <<>>]_vars

C6_Witness ==
    /\ ev.op = "switch" /\ ev.state = "on" /\ ev.ret = "1"
    /\ ev.why = "BudgetExceeded"
    /\ Load(ctl) > 0

\* C7: two outputs X and Y that each fit the budget but not together, asked
\* in turn: on(X) is accepted and the load is draw(X); on(Y) is refused for the
\* budget and the load stays draw(X); off(X) empties the load; on(Y) is then
\* accepted and the load is draw(Y).
C7_SequentialBudget ==
    /\ script.step = 1 =>
          /\ ev.ret \in Accepted
          /\ Observed(ctl, script.x)
          /\ Load(ctl) = ctl.output_amps[script.x]
    /\ script.step = 2 =>
          /\ ev.ret = "1" /\ ev.why = "BudgetExceeded"
          /\ Observed(ctl, script.x) /\ ~Observed(ctl, script.y)
          /\ Load(ctl) = ctl.output_amps[script.x]
    /\ script.step = 3 =>
          /\ ~Observed(ctl, script.x) /\ ~Observed(ctl, script.y)
          /\ Load(ctl) = 0
    /\ script.step = 4 =>
          /\ ev.ret \in Accepted
          /\ Observed(ctl, script.y) /\ ~Observed(ctl, script.x)
          /\ Load(ctl) = ctl.output_amps[script.y]

C7_Witness ==
    /\ script.step = 4
    /\ ev.op = "switch" /\ ev.id = script.y /\ ev.ret \in Accepted
    /\ Load(ctl) = ctl.output_amps[script.y]

\* C8: an on-request for a duration d > 0 on an output that is on without a
\* duration is accepted: the output is then on for a duration that ends d after
\* the call, it is still observed on, and the time it was turned on is kept.
C8_UntimedBecomesTimed ==
    [][(/\ SwitchStep /\ ev'.state = "on" /\ ev'.duration > 0
        /\ Has(ctl.output_id, ev'.id)
        /\ ctl.output_type[ev'.id] \in AmpKinds
        /\ Observed(ctl, ev'.id)
        /\ ~ctl.output_on_duration[ev'.id]
        /\ ctl.output_time_turned_on[ev'.id] # None)
       => /\ ev'.ret \in Accepted
          /\ ctl'.output_on_duration[ev'.id]
          /\ ctl'.output_on_until[ev'.id] = now + ev'.duration
          /\ Observed(ctl', ev'.id)
          /\ ctl'.output_time_turned_on[ev'.id] = ctl.output_time_turned_on[ev'.id]]_vars

\* C9: output_on_off on an id that is not registered returns 1 and changes
\* nothing: no field of the controller, no switch, no sample, no rule.
C9_UnknownIdChangesNothing ==
    [][(SwitchStep /\ unknown_output(ctl, ev'.id)) =>
          /\ ev'.ret = "1"
          /\ ctl' = NoLogs(ctl)]_vars

C9_Witness ==
    /\ ev.op = "switch" /\ ev.why = "NotFound" /\ ev.ret = "1"
    /\ unknown_output(ctl, ev.id)

\* C10: a rule that watches state 'on' with a required duration is evaluated
\* only for an on-request on the watched output whose requested duration is
\* that duration.
C10_OnRuleNeedsItsDuration ==
    \A k \in 1..Len(ctl.fired) :
        conditional[RuleOf(ctl.fired[k].rule)].if_relay_state = "on" =>
            /\ ctl.calls[ctl.fired[k].call].state = "on"
            /\ ctl.calls[ctl.fired[k].call].id =
                   conditional[RuleOf(ctl.fired[k].rule)].if_relay_id
            /\ ctl.calls[ctl.fired[k].call].duration =
                   conditional[RuleOf(ctl.fired[k].rule)].if_relay_duration

C10_Witness ==
    \E k \in 1..Len(ctl.fired) :
        /\ conditional[RuleOf(ctl.fired[k].rule)].if_relay_state = "on"
        /\ conditional[RuleOf(ctl.fired[k].rule)].if_relay_duration > 0
        /\ ctl.calls[ctl.fired[k].call].duration =
               conditional[RuleOf(ctl.fired[k].rule)].if_relay_duration

\* C11: an email action that arrives when the count has reached the hourly
\* maximum and the window has not elapsed, its last instant included, is
\* suppressed.
C11_SuppressedWithinWindow ==
    \A k \in 1..Len(ctl.emails) :
        (ctl.emails[k].count >= HourlyMax /\ ctl.emails[k].t <= ctl.emails[k].wait)
        => ~ctl.emails[k].sent

\* C12: a call of output_on_off that ends without an exception returns 0 or 1,
\* never anything else.
C12_ReturnsZeroOrOne ==
    (ev.op = "switch" /\ ev.ret # "raise") => ev.ret \in {"0", "1"}

\* C13: an on-request with a minimum-off interval m > 0 for a current-drawing
\* output that is off is refused, and nothing is switched, whenever less than m
\* has elapsed since the output's scheduled-off timestamp; the refusal for the
\* minimum-off interval is given in no other case.
C13_MinOffDenies ==
    [][(/\ SwitchStep /\ ev'.state = "on"
        /\ Has(ctl.output_id, ev'.id)
        /\ ctl.output_type[ev'.id] \in AmpKinds)
       => /\ (/\ ev'.min_off > 0
              /\ ~is_on(ctl, ev'.id)
              /\ ~ctl.output_on_duration[ev'.id]
              /\ ctl.output_last_duration[ev'.id] > 0
              /\ now - ctl.output_on_until[ev'.id] >= 0
              /\ now - ctl.output_on_until[ev'.id] < ev'.min_off)
             => (ev'.ret = "1" /\ ctl'.switched = <<>>)
          /\ ev'.why = "MinOffNotElapsed"
             => (/\ ev'.min_off > 0
                 /\ ~is_on(ctl, ev'.id)
                 /\ now - ctl.output_on_until[ev'.id] < ev'.min_off)]_vars

\* C14: an off-request for a registered output is never refused for the budget
\* or the minimum-off interval; when the output's pin or handle is configured
\* the hardware is switched off and the output is afterwards observed off with
\* no timed interval pending; when its kind needs a pin and none is configured
\* nothing changes and no rule fires.
C14_OffNeverGuarded ==
    [][(SwitchStep /\ ev'.state = "off" /\ Has(ctl.output_id, ev'.id)) =>
          /\ ev'.ret # "1"
          /\ ev'.why \notin {"BudgetExceeded", "MinOffNotElapsed"}
          /\ (/\ is_setup(ctl, ev'.id) /\ ~invalid_pin(ctl, ev'.id)
              /\ ctl.output_type[ev'.id] = "command" => ctl.output_off_command[ev'.id]) =>
                /\ \E k \in 1..Len(ctl'.switched) :
                       ctl'.switched[k] = [id |-> ev'.id, state |-> "off"]
                /\ Has(ctl'.output_id, ev'.id)
                /\ ~Observed(ctl', ev'.id)
                /\ ~ctl'.output_on_duration[ev'.id]
          /\ invalid_pin(ctl, ev'.id) =>
                /\ NoLogs(ctl') = NoLogs(ctl)
                /\ ctl'.switched = <<>>
                /\ ctl'.written = <<>>
                /\ ctl'.fired = <<>>]_vars

C14_Witness ==
    /\ ev.op = "switch" /\ ev.state = "off" /\ ev.min_off > 0
    /\ Has(ctl.output_id, ev.id)
    /\ ctl.output_type[ev.id] \in AmpKinds
    /\ \E k \in 1..Len(ctl.switched) : ctl.switched[k] = [id |-> ev.id, state |-> "off"]
    /\ \E k \in 1..Len(ctl.written) : ctl.written[k].id = ev.id /\ ctl.written[k].value > 0
    /\ Load(ctl) > 0

\* C15: when run() shuts down, every registered output whose pin or handle is
\* configured, of every kind and every startup policy, is switched off, and
\* before any handle is released.
C15_ShutdownSwitchesAllOff ==
    (ev.op = "shutdown" /\ ev.ret # "raise") =>
        \A id \in Registered :
            (/\ is_setup(ctl, id) /\ ~invalid_pin(ctl, id)
             /\ ctl.output_type[id] = "command" => ctl.output_off_command[id])
            => \E k \in 1..Len(ctl.switched) :
                   /\ ctl.switched[k] = [id |-> id, state |-> "off"]
                   /\ \A j \in 1..Len(ctl.switched) :
                          ctl.switched[j].state = "cleanup" => k < j

\* C16: when stop_controller, called while run() is in its loop, has returned,
\* the sweep of run() has been executed and no output is observed on.
C16_StopReturnsAfterSweep ==
    (ev.op = "stop" /\ loop.pc # "start") =>
        /\ loop.sweeps > 0
        /\ \A id \in Registered : ~Observed(ctl, id)

C18_UnknownIdFailsCleanly ==
    [][(/\ ev'.op \in {"switch", "is_on", "output_sec_currently_on", "Modify", "Delete"}
        /\ unknown_output(ctl, ev'.id)
        /\ db' = db /\ now' = now)
       => /\ ev'.ret = "1"
          /\ NoLogs(ctl') = NoLogs(ctl)]_vars

\* C19: every registered output is timed on (output_on_duration set, no
\* output_time_turned_on), untimed on (output_time_turned_on set,
\* output_on_duration clear) or off (neither): the two are never both set.
C19_OneOnState ==
    \A id \in Registered :
        ~(ctl.output_on_duration[id] /\ ctl.output_time_turned_on[id] # None)

\* C20: an off-request that run() started for an expired interval does not
\* switch off an output whose output_on_until an on-request has meanwhile
\* moved into the future.
C20_NoOffAfterRenewal ==
    [][(/\ ev'.op = "thread"
        /\ threads'[ev'.id] = threads[ev'.id] - 1
        /\ Has(ctl.output_id, ev'.id)
        /\ ctl.output_on_duration[ev'.id]
        /\ ctl.output_on_until[ev'.id] > now)
       => /\ \A k \in 1..Len(ctl'.switched) :
                ctl'.switched[k] # [id |-> ev'.id, state |-> "off"]
          /\ ctl'.output_on_duration[ev'.id]
          /\ ctl'.output_on_until[ev'.id] = ctl.output_on_until[ev'.id]]_vars

\* C21: when output_switch raises during an on- or off-request, the runtime
\* fields of the output are what they were before the request, and the output
\* is reported on only if it was before.
C21_FailedSwitchChangesNothing ==
    [][(/\ SwitchStep /\ ev'.ret = "raise" /\ ev'.why = "SwitchError"
        /\ Has(ctl.output_id, ev'.id) /\ is_setup(ctl, ev'.id))
       => /\ ctl'.output_on_until[ev'.id] = ctl.output_on_until[ev'.id]
          /\ ctl'.output_on_duration[ev'.id] = ctl.output_on_duration[ev'.id]
          /\ ctl'.output_last_duration[ev'.id] = ctl.output_last_duration[ev'.id]
          /\ ctl'.output_time_turned_on[ev'.id] = ctl.output_time_turned_on[ev'.id]
          /\ ctl'.pwm_time_turned_on = ctl.pwm_time_turned_on
          /\ Observed(ctl', ev'.id) = Observed(ctl, ev'.id)]_vars

\* C22: check_conditionals is entered after every on- or off-request that was
\* carried out and asked for the rules, and is not entered for an on-request
\* that only sets the duty cycle of a PWM output that is already on.
C22_RulesAfterTransitionsOnly ==
    [][SwitchStep =>
          /\ (ev'.ret = "None" /\ ev'.why \in {"on", "off"}) =>
                \E k \in 1..Len(ctl'.evaluated) :
                    ctl'.evaluated[k] = [id |-> ev'.id, state |-> ev'.state]
          /\ (/\ Has(ctl.output_id, ev'.id)
              /\ ctl.output_type[ev'.id] = "pwm"
              /\ Observed(ctl, ev'.id)
              /\ ev'.state = "on") =>
                \A k \in 1..Len(ctl'.evaluated) : ctl'.evaluated[k].id # ev'.id]_vars

\* C23: when the rules are evaluated after an on-request, every rule that
\* matches is executed and every email action of those rules is carried out,
\* whatever happens to the other actions, and the request does not raise.
C23_CascadeContinues ==
    [][(/\ SwitchStep /\ ev'.state = "on"
        /\ Len(ctl'.evaluated) > 0
        /\ Observed(ctl', ev'.id))
       => /\ ev'.ret # "raise"
          /\ \A n \in 1..Len(conditional) :
                rule_matches(conditional[n], ev'.id, TRUE, ev'.duration) =>
                    \E k \in 1..Len(ctl'.fired) :
                        ctl'.fired[k].rule = conditional[n].id /\ ctl'.fired[k].call = 1
          /\ Len(ctl'.emails) >=
                Cardinality({x \in (1..Len(conditional)) \X (1..2) :
                    /\ rule_matches(conditional[x[1]], ev'.id, TRUE, ev'.duration)
                    /\ x[2] <= Len(conditional[x[1]].actions)
                    /\ conditional[x[1]].actions[x[2]].do_action = "email"})]_vars

\* C24: output_setup('Modify') on an output that is on, for is_on and for
\* output_state, and whose pin or handle is configured, switches its hardware
\* off, resets its runtime fields (output_on_until = now, no last duration, no
\* timed interval, no turned-on time), and leaves it off for is_on and for
\* output_state, whatever its kind.
C24_ModifyTurnsOff ==
    [][(/\ ev'.op = "Modify" /\ db' # db /\ ev'.ret = "0"
        /\ Observed(ctl, ev'.id) /\ ~output_state_off(ctl, ev'.id)
        /\ is_setup(ctl, ev'.id) /\ ~invalid_pin(ctl, ev'.id)
        /\ ctl.output_type[ev'.id] = "command" => ctl.output_off_command[ev'.id])
       => /\ \E k \in 1..Len(ctl'.switched) :
                ctl'.switched[k] = [id |-> ev'.id, state |-> "off"]
          /\ ctl'.output_on_until[ev'.id] = now
          /\ ctl'.output_last_duration[ev'.id] = 0
          /\ ~ctl'.output_on_duration[ev'.id]
          /\ ctl'.output_time_turned_on[ev'.id] = None
          /\ ~Observed(ctl', ev'.id)
          /\ output_state_off(ctl', ev'.id)]_vars

\* C25: output_setup('Delete') on an output that is on, timed or untimed, and
\* whose pin or handle is configured, switches its hardware off; afterwards the
\* id is in none of the per-output dictionaries, output_on_off does not know
\* it and run() does not find it expired.
C25_DeleteTurnsOffAndForgets ==
    [][(/\ ev'.op = "Delete" /\ db' # db /\ ev'.ret = "0"
        /\ Has(ctl.output_id, ev'.id)
        /\ Observed(ctl, ev'.id) \/ ctl.output_on_duration[ev'.id]
        /\ is_setup(ctl, ev'.id) /\ ~invalid_pin(ctl, ev'.id)
        /\ ctl.output_type[ev'.id] = "command" => ctl.output_off_command[ev'.id])
       => /\ \E k \in 1..Len(ctl'.switched) :
                ctl'.switched[k] = [id |-> ev'.id, state |-> "off"]
          /\ unknown_output(ctl', ev'.id)
          /\ ev'.id \notin {id \in DOMAIN ctl'.output_id : expired(ctl', id, now)}
          /\ \A f \in {"output_id", "output_type", "output_name", "output_pin",
                       "output_amps", "output_trigger", "output_on_at_start",
                       "output_on_until", "output_last_duration", "output_on_duration",
                       "output_time_turned_on", "output_on_command",
                       "output_off_command", "wireless_pi_switch", "pwm_hertz",
                       "pwm_output", "pwm_state", "pwm_time_turned_on"} :
                ~Has(ctl'[f], ev'.id)]_vars

\* lines 619-640: an entry in every dictionary that all_outputs_initialize fills
fully_registered(c, id) ==
    \A f \in {"output_id", "output_type", "output_name", "output_pin", "output_amps",
               "output_trigger", "output_on_at_start", "output_on_until",
               "output_last_duration", "output_on_duration", "output_time_turned_on",
               "output_on_command", "output_off_command", "pwm_hertz",
               "pwm_time_turned_on"} : Has(c[f], id)

\* C26: when the registration of exactly one configured output fails during
\* construction, that output alone is missing from the registry; every other
\* configured output has an entry in every dictionary, is set up, and has been
\* through the start-up sweep (an output configured on-at-start is on), and
\* the controller's loop runs.
C26_StartupFailureIsolated ==
    (ev.op = "init" /\ now = 0 /\ Cardinality(failing(db, ctl.broken)) = 1)
    => /\ \A id \in failing(db, ctl.broken) : ~Has(ctl.output_id, id)
       /\ \A id \in DOMAIN db \ failing(db, ctl.broken) :
             /\ fully_registered(ctl, id)
             /\ is_setup(ctl, id)
             /\ db[id].on_at_start = "True" => Observed(ctl, id)
       /\ loop.pc = "while"

\* the rules executed for the request itself (not for a request of the cascade)
executed(c) == {c.fired[k].rule : k \in {j \in 1..Len(c.fired) : c.fired[j].call = 1}}

\* C27: after a successful on-transition of an output requested with duration
\* d the rules executed are exactly the active rules bound to the output that
\* watch on-any, or on without a required duration, or on with required
\* duration d; after an off-transition they are exactly the active rules
\* bound to the output that watch off.
C27_RulesSelectedByTransition ==
    [][(/\ SwitchStep /\ ev'.ret = "None"
        /\ Has(ctl.output_id, ev'.id)
        /\ is_setup(ctl, ev'.id) /\ ~invalid_pin(ctl, ev'.id)
        /\ \E k \in 1..Len(ctl'.switched) : ctl'.switched[k].id = ev'.id)
       => /\ (ev'.state = "on" /\ ev'.why = "on" /\ ~Observed(ctl, ev'.id)) =>
                executed(ctl') =
                    {conditional[n].id : n \in {m \in 1..Len(conditional) :
                        /\ conditional[m].if_relay_id = ev'.id
                        /\ conditional[m].is_activated
                        /\ \/ conditional[m].if_relay_state = "on_any"
                           \/ /\ conditional[m].if_relay_state = "on"
                              /\ conditional[m].if_relay_duration \in {0, ev'.duration}}}
          /\ (ev'.state = "off" /\ ev'.why = "off" /\ Observed(ctl, ev'.id)) =>
                executed(ctl') =
                    {conditional[n].id : n \in {m \in 1..Len(conditional) :
                        /\ conditional[m].if_relay_id = ev'.id
                        /\ conditional[m].is_activated
                        /\ conditional[m].if_relay_state = "off"}}]_vars

\* C28: an off-request that ends the timed on-interval of a current-drawing
\* output before the scheduler has found it expired writes exactly one
\* duration_sec sample, whose value is the time since the output was turned
\* on; an off-request on an output that is off writes no sample.
C28_OneSamplePerInterval ==
    [][(/\ SwitchStep /\ ev'.state = "off" /\ ev'.ret = "None" /\ ev'.why = "off"
        /\ Operable(ctl, ev'.id))
       => /\ (/\ interval.id = ev'.id /\ interval.samples = <<>>
              /\ ctl.output_on_duration[ev'.id]
              /\ ctl.output_last_duration[ev'.id] = interval.d
              /\ ~expired(ctl, ev'.id, now)) =>
                Samples(ctl', ev'.id) =
                    <<now - (ctl.output_on_until[ev'.id] - interval.d)>>
          /\ (/\ ~ctl.output_on_duration[ev'.id]
              /\ ctl.output_time_turned_on[ev'.id] = None
              /\ ~Observed(ctl, ev'.id)) =>
                Samples(ctl', ev'.id) = <<>>]_vars

\* the email actions of the rules evaluated in one step
RECURSIVE emails_due(_, _)
emails_due(fired, k) ==
    IF k > Len(fired) THEN 0
    ELSE Cardinality({j \in 1..Len(conditional[RuleOf(fired[k].rule)].actions) :
                        conditional[RuleOf(fired[k].rule)].actions[j].do_action = "email"})
         + emails_due(fired, k + 1)

\* C29: when a rule that is executed has a toggle action whose target is not a
\* registered output, the request does not raise, the target is not switched,
\* the target is reported as invalid, and every email action of the executed
\* rules is still carried out.
C29_UnknownTargetSkipped ==
    [][SwitchStep =>
          \A k \in 1..Len(ctl'.fired) :
              \A j \in 1..Len(conditional[RuleOf(ctl'.fired[k].rule)].actions) :
                  LET a == conditional[RuleOf(ctl'.fired[k].rule)].actions[j]
                  IN  (a.do_action = "relay" /\ ~Has(ctl.output_name, a.do_relay_id)) =>
                          /\ ev'.ret # "raise"
                          /\ \A m \in 1..Len(ctl'.switched) :
                                ctl'.switched[m].id # a.do_relay_id
                          /\ \E m \in 1..Len(ctl'.invalid) :
                                ctl'.invalid[m] = a.do_relay_id
                          /\ Len(ctl'.emails) = emails_due(ctl'.fired, 1)]_vars

C29_Witness ==
    /\ ev.op = "switch" /\ ev.ret = "None"
    /\ Len(ctl.fired) = 2 /\ Len(ctl.emails) = 2
    /\ \E k \in 1..Len(ctl.fired) :
          \E j \in 1..Len(conditional[RuleOf(ctl.fired[k].rule)].actions) :
              /\ conditional[RuleOf(ctl.fired[k].rule)].actions[j].do_action = "relay"
              /\ unknown_output(ctl, conditional[RuleOf(ctl.fired[k].rule)].actions[j].do_relay_id)
              /\ ctl.invalid = <<conditional[RuleOf(ctl.fired[k].rule)].actions[j].do_relay_id>>

\* C30: the duty cycle in the hands of the hardware is always within the range
\* of the backend of the output: 0..1000000 for hardware PWM, 0..255 for
\* software PWM, whatever duty cycle was requested.
C30_DutyWithinNativeRange ==
    \A id \in DOMAIN ctl.pwm_duty :
        Has(ctl.pwm_library, id) =>
            /\ ctl.pwm_library[id] = "pigpio_hardware" =>
                  (0 <= ctl.pwm_duty[id] /\ ctl.pwm_duty[id] <= 1000000)
            /\ ctl.pwm_library[id] = "pigpio_any" =>
                  (0 <= ctl.pwm_duty[id] /\ ctl.pwm_duty[id] <= 255)

\* the dicts that hold an entry for every output, whatever its kind
PerOutputFields ==
    {"output_id", "output_type", "output_name", "output_pin", "output_amps",
     "output_trigger", "output_on_at_start", "output_on_until",
     "output_last_duration", "output_on_duration", "output_time_turned_on",
     "output_on_command", "output_off_command", "pwm_hertz", "pwm_library",
     "pwm_time_turned_on"}

\* C31: in every reachable state every per-output dict holds exactly the ids
\* of the registered outputs, and neither is_on nor current_amp_load raises
\* for a registered output.
C31_RegistryConsistent ==
    /\ \A f \in PerOutputFields : DOMAIN ctl[f] = DOMAIN ctl.output_id
    /\ \A id \in DOMAIN ctl.output_id : ~is_on_raises(ctl, id)
    /\ ~current_amp_load_raises(ctl)

\* C32: every request returns without the nest of cascaded requests reaching
\* the depth at which the interpreter gives up: no request raises and no
\* cascaded request is made at the deepest level.
C32_CascadeBounded ==
    ev.op = "switch" =>
        /\ ev.ret # "raise"
        /\ \A k \in 1..Len(ctl.calls) : ctl.calls[k].depth < MaxDepth

\* C33: the loop of run() ends only after stop_controller was called, and
\* never by an error.
C33_LoopNeverEndedByError ==
    loop.pc = "ended" => (loop.stops > 0 /\ loop.error = "")

\* C34: an on-request for a duration for an output that is on, made while the
\* load is within the budget, is not denied for the budget.
C34_OwnDrawCountedOnce ==
    [][(/\ SwitchStep /\ ev'.state = "on" /\ ev'.duration > 0
        /\ Has(ctl.output_id, ev'.id)
        /\ ctl.output_type[ev'.id] \in AmpKinds
        /\ ~current_amp_load_raises(ctl)
        /\ Observed(ctl, ev'.id)
        /\ current_amp_load(ctl) <= MaxAmps)
       => ev'.why # "BudgetExceeded"]_vars

\* C35: when an off-request, made by a caller or by a thread of the
\* scheduler, turns off a current-drawing output that was on, the output's
\* output_on_until is the time of that request.
C35_OnUntilIsTurnOffTime ==
    [][(/\ ev'.op \in {"switch", "thread"} /\ now' = now /\ db' = db
        /\ ev'.state = "off" /\ ev'.ret = "None" /\ ev'.why = "off"
        /\ Operable(ctl, ev'.id)
        /\ Observed(ctl, ev'.id)
        /\ ~Observed(ctl', ev'.id)
        /\ \E k \in 1..Len(ctl'.switched) :
              ctl'.switched[k] = [id |-> ev'.id, state |-> "off"])
       => ctl'.output_on_until[ev'.id] = now]_vars

\* C36: in every reachable state, for every registered output that is set up
\* and on which is_on does not raise, is_on returns True exactly when
\* output_state does not return 'off'.
C36_QueriesAgree ==
    \A id \in Registered :
        (~is_on_raises(ctl, id) /\ is_setup(ctl, id)) =>
            (is_on(ctl, id) <=> ~output_state_off(ctl, id))

\* C37: once stop_controller has been called, run() eventually leaves its
\* loop and executes the sweep of its finally block.
C37_StopNeverLost ==
    (loop.stops > 0) ~> (loop.pc = "ended" /\ loop.sweeps > 0)

\* the positions in the log of calls of the requests made for output id
calls_for(c, id) == {k \in 1..Len(c.calls) : c.calls[k].id = id}

\* C38: after construction no request has been made for an output whose
\* on_at_start is None or for a PWM output; for every other output the first
\* request is an off-request and an on-request is made only if on_at_start is
\* True; no request came from a rule and check_conditionals was never
\* entered.
C38_StartupSweep ==
    ev.op = "init" =>
        /\ \A id \in Registered :
              IF db[id].on_at_start = "None" \/ db[id].relay_type = "pwm"
              THEN calls_for(ctl, id) = {}
              ELSE /\ calls_for(ctl, id) # {}
                   /\ \A k \in calls_for(ctl, id) :
                         /\ (\A j \in calls_for(ctl, id) : k <= j) =>
                                ctl.calls[k].state = "off"
                         /\ ctl.calls[k].state = "on" => db[id].on_at_start = "True"
        /\ \A k \in 1..Len(ctl.calls) : ctl.calls[k].depth = 0
        /\ ctl.evaluated = <<>> /\ ctl.fired = <<>>

C38_Witness ==
    /\ ev.op = "init"
    /\ \E id \in Registered :
          /\ db[id].on_at_start = "True"
          /\ \E k \in calls_for(ctl, id) : ctl.calls[k].state = "on"
          /\ Observed(ctl, id)
    /\ \E id \in Registered : db[id].relay_type = "pwm" /\ calls_for(ctl, id) = {}

====
